---------------------------- MODULE Spec2Model ----------------------------
(***************************************************************************)
(* scroll-sync-group (src/src/index.ts): a registry of scroll groups and   *)
(* the dispatcher that mirrors the scroll offsets of the members of a      *)
(* group.                                                                  *)
(*                                                                         *)
(* The registry `scrollGroups' is a Map: a function whose domain is the    *)
(* set of keys.  The listeners addToScrollGroup installs are closures with *)
(* identity; `handlers' is the sequence of the closures that can still     *)
(* run (registered on an element, or with a pending debounce timer), in    *)
(* the order they were created.  A closure keeps the ScrollGroupData       *)
(* object it was created for.  Once that object has been deleted from the  *)
(* registry nothing but its closures reaches it, and they read only its    *)
(* isPaused field, which nothing can change any more: the closure is       *)
(* marked `orphan' and keeps that value in `orphanPaused'.                 *)
(***************************************************************************)
EXTENDS Integers, Sequences, FiniteSets, TLC

\* ------------------------------------------------------------- universe

\* The surfaces (HTMLElement objects) and the group identifiers in play.
Els == {"a", "b", "c"}
Gids == {"g"}
NoEl == "none"

\* Bounds of the model.
MaxOffset == 2        \* largest offset a dispatch may write

\* Date.now() when the page starts: beyond any delay (lastCall starts at 0).
StartTime == 1000

VARIABLES
    scrollGroups,   \* the registry: group identifier -> ScrollGroupData
    handlers,       \* the listener closures that can still run
    scrollTop,      \* el.scrollTop
    scrollLeft,     \* el.scrollLeft
    dataset,        \* el.dataset.scrollSyncGroup / scrollSyncOptions
    now,            \* Date.now() and the timer clock
    emitted         \* the 'scrollsync' events dispatched by the last step

vars == <<scrollGroups, handlers, scrollTop, scrollLeft, dataset, now, emitted>>

\* ------------------------------------------------------------- options

DEFAULT_OPTIONS ==
    [horizontal |-> TRUE, vertical |-> TRUE, debounceMs |-> 0,
     throttleMs |-> 0, scrollRatio |-> 1, smooth |-> FALSE]

\* { ...base, ...over }: an object spread; `over' is a partial options object,
\* a function whose domain is the set of fields it names.
MergeOptions(base, over) ==
    [f \in DOMAIN base |-> IF f \in DOMAIN over THEN over[f] ELSE base[f]]

\* The options object of an addToScrollGroup call (line 64).
JoinMergedOptions(over) == MergeOptions(DEFAULT_OPTIONS, over)

\* An options argument that names no field ({}).
NoOverride == [f \in {} |-> 0]

\* ------------------------------------------------------------- helpers

Range(q) == { q[i] : i \in DOMAIN q }

\* Set.add on an insertion-ordered Set.
SetAdd(q, e) == IF e \in Range(q) THEN q ELSE Append(q, e)

\* Set.delete on an insertion-ordered Set.
SetDelete(q, e) == SelectSeq(q, LAMBDA x : x # e)

\* Map.set on a Map modelled as a function.
MapSet(m, k, v) == [x \in (DOMAIN m) \cup {k} |-> IF x = k THEN v ELSE m[x]]

\* Map.delete.
MapDelete(m, k) == [x \in (DOMAIN m) \ {k} |-> m[x]]

\* The program state as one value, so that a handler's calls compose.
\* `emitted' are the 'scrollsync' events dispatched by the operation, and
\* `observed' the offsets a listener of each of them finds when it is called.
State ==
    [scrollGroups |-> scrollGroups, handlers |-> handlers,
     top |-> scrollTop, left |-> scrollLeft, dataset |-> dataset,
     now |-> now, emitted |-> <<>>, observed |-> <<>>]

\* ---------------------------------------------------------- dispatcher

\* A faulty variant of ScrollTo: both axes are written whatever the call names.
ScrollTo_WritesBothAxes(s, el, hasTop, t, hasLeft, l) ==
    [s EXCEPT !.top[el] = t, !.left[el] = l]

\* el.scrollTo({ top, left, behavior: 'smooth' }) with the axes the call names:
\* the surface ends at the requested target on those axes (the animation is
\* the host's), the other axis is left alone.
ScrollTo(s, el, hasTop, t, hasLeft, l) ==
    [s EXCEPT !.top[el] = IF hasTop THEN t ELSE @,
              !.left[el] = IF hasLeft THEN l ELSE @]

\* A faulty variant of SyncOne: the source is not skipped.
SyncOne_NoSourceCheck(s, el, sourceEl, opt, adjTop, adjLeft) ==
    [s EXCEPT !.top[el] = IF opt.vertical THEN adjTop ELSE @,
              !.left[el] = IF opt.horizontal THEN adjLeft ELSE @]

\* A faulty variant of SyncOne: the source is recognised by its offsets.
SyncOne_ExcludesByOffset(s, el, sourceEl, opt, adjTop, adjLeft) ==
    IF s.top[el] = s.top[sourceEl] /\ s.left[el] = s.left[sourceEl] THEN s
    ELSE [s EXCEPT !.top[el] = IF opt.vertical THEN adjTop ELSE @,
                   !.left[el] = IF opt.horizontal THEN adjLeft ELSE @]

\* The body of group.elements.forEach in syncScroll for one element.
SyncOne(s, el, sourceEl, opt, adjTop, adjLeft) ==
    IF el = sourceEl THEN s
    ELSE IF opt.smooth
         THEN IF opt.vertical /\ opt.horizontal
                  THEN ScrollTo(s, el, TRUE, adjTop, TRUE, adjLeft)
              ELSE IF opt.vertical
                  THEN ScrollTo(s, el, TRUE, adjTop, FALSE, 0)
              ELSE IF opt.horizontal
                  THEN ScrollTo(s, el, FALSE, 0, TRUE, adjLeft)
              ELSE s
         ELSE [s EXCEPT !.top[el] = IF opt.vertical THEN adjTop ELSE @,
                        !.left[el] = IF opt.horizontal THEN adjLeft ELSE @]

RECURSIVE SyncEach(_, _, _, _, _, _)
SyncEach(s, els, sourceEl, opt, adjTop, adjLeft) ==
    IF els = <<>> THEN s
    ELSE SyncEach(SyncOne(s, Head(els), sourceEl, opt, adjTop, adjLeft),
                  Tail(els), sourceEl, opt, adjTop, adjLeft)

\* A faulty variant of SyncGuard: the pause check is missing.
SyncGuard_IgnoresPause(s, groupId) == groupId \in DOMAIN s.scrollGroups

\* The guard of syncScroll (line 227): the registry is looked up by identifier.
SyncGuard(s, groupId) ==
    groupId \in DOMAIN s.scrollGroups /\ ~s.scrollGroups[groupId].isPaused

\* A faulty variant of SyncScroll: the event is dispatched before the members
\* are written.
SyncScroll_EmitsFirst(s, sourceEl, groupId) ==
    IF ~SyncGuard(s, groupId) THEN s
    ELSE LET group == s.scrollGroups[groupId]
             top == s.top[sourceEl]
             left == s.left[sourceEl]
             s1 == [s EXCEPT !.scrollGroups[groupId].activeElement = sourceEl,
                             !.emitted = Append(@,
                                [groupId |-> groupId, sourceElement |-> sourceEl,
                                 scrollTop |-> top, scrollLeft |-> left]),
                             !.observed = Append(@, [top |-> s.top, left |-> s.left])]
         IN SyncEach(s1, group.elements, sourceEl, group.options,
                     top * group.options.scrollRatio,
                     left * group.options.scrollRatio)

\* syncScroll(sourceEl, groupId): the state after the call.
SyncScroll(s, sourceEl, groupId) ==
    IF ~SyncGuard(s, groupId) THEN s
    ELSE LET group == s.scrollGroups[groupId]
             top == s.top[sourceEl]
             left == s.left[sourceEl]
             s1 == [s EXCEPT !.scrollGroups[groupId].activeElement = sourceEl]
             s2 == SyncEach(s1, group.elements, sourceEl, group.options,
                            top * group.options.scrollRatio,
                            left * group.options.scrollRatio)
         IN [s2 EXCEPT !.emitted = Append(@,
                [groupId |-> groupId, sourceElement |-> sourceEl,
                 scrollTop |-> top, scrollLeft |-> left]),
                       !.observed = Append(@, [top |-> s2.top, left |-> s2.left])]

\* group.isPaused as closure h reads it (line 80): `group' is the object the
\* closure captured, not the registry's current entry.
CapturedPaused(s, h) ==
    IF h.orphan THEN h.orphanPaused ELSE s.scrollGroups[h.groupId].isPaused

\* The unwrapped scrollHandler of closure h (lines 79-82).
ScrollHandler(s, h) ==
    IF CapturedPaused(s, h) THEN s
    ELSE SyncScroll(s, h.el, h.groupId)

\* ------------------------------------------------------- rate limiting

\* A faulty variant of Debounced: a pending timer is not restarted.
Debounced_KeepsTimer(s, i, evt) ==
    IF s.handlers[i].pending THEN s
    ELSE [s EXCEPT !.handlers[i].pending = TRUE,
                   !.handlers[i].due = s.now + s.handlers[i].delay,
                   !.handlers[i].args = evt]

\* The closure debounce() returns, called with an event: the pending timer
\* is cleared and a new one set to call func with this event `delay' later.
Debounced(s, i, evt) ==
    [s EXCEPT !.handlers[i].pending = TRUE,
              !.handlers[i].due = s.now + s.handlers[i].delay,
              !.handlers[i].args = evt]

\* A faulty variant of Throttled: the window must be exceeded, not reached.
Throttled_StrictWindow(s, i, evt) ==
    IF s.now - s.handlers[i].lastCall > s.handlers[i].delay
        THEN ScrollHandler([s EXCEPT !.handlers[i].lastCall = s.now], s.handlers[i])
        ELSE s

\* The closure throttle() returns, called with an event.
Throttled(s, i, evt) ==
    IF s.now - s.handlers[i].lastCall >= s.handlers[i].delay
        THEN ScrollHandler([s EXCEPT !.handlers[i].lastCall = s.now], s.handlers[i])
        ELSE s

\* A call of listener closure i by the host.
CallListener(s, i, evt) ==
    CASE s.handlers[i].kind = "debounce" -> Debounced(s, i, evt)
      [] s.handlers[i].kind = "throttle" -> Throttled(s, i, evt)
      [] OTHER -> ScrollHandler(s, s.handlers[i])

\* The host delivers a 'scroll' event on el: its registered listeners run in
\* the order they were added.
RECURSIVE DeliverScroll(_, _, _, _)
DeliverScroll(s, el, evt, i) ==
    IF i > Len(s.handlers) THEN s
    ELSE DeliverScroll(
            IF s.handlers[i].attached /\ s.handlers[i].el = el
                THEN CallListener(s, i, evt) ELSE s,
            el, evt, i + 1)

\* A faulty variant of WrapperKind: throttling is chosen first.
WrapperKind_ThrottleFirst(opt) ==
    IF opt.throttleMs > 0 THEN "throttle"
    ELSE IF opt.debounceMs > 0 THEN "debounce"
    ELSE "raw"

\* The wrapper addToScrollGroup chooses (lines 85-89).
WrapperKind(opt) ==
    IF opt.debounceMs > 0 THEN "debounce"
    ELSE IF opt.throttleMs > 0 THEN "throttle"
    ELSE "raw"

WrapperDelay(opt) ==
    IF opt.debounceMs > 0 THEN opt.debounceMs
    ELSE IF opt.throttleMs > 0 THEN opt.throttleMs
    ELSE 0

NoEvent == [target |-> NoEl, top |-> 0, left |-> 0]

\* A new listener closure for (el, groupId), over the group object that is
\* in the registry under groupId.
NewHandler(el, groupId, opt) ==
    [el |-> el, groupId |-> groupId,
     kind |-> WrapperKind(opt), delay |-> WrapperDelay(opt),
     attached |-> TRUE,
     orphan |-> FALSE, orphanPaused |-> FALSE,
     pending |-> FALSE, due |-> 0, args |-> NoEvent,
     lastCall |-> 0]

\* ------------------------------------------------------------ registry

NewGroup(opt) ==
    [elements |-> <<>>, options |-> opt, isPaused |-> FALSE,
     listeners |-> [e \in {} |-> 0], activeElement |-> NoEl]

\* An element without the two data attributes.
NoData == [group |-> "none", options |-> NoOverride]

\* addToScrollGroup(el, groupId, options)
AddToScrollGroup(s, el, groupId, over) ==
    LET mergedOptions == JoinMergedOptions(over)
        s1 == IF groupId \notin DOMAIN s.scrollGroups
                THEN [s EXCEPT !.scrollGroups =
                                    MapSet(@, groupId, NewGroup(mergedOptions))]
                ELSE s
        i == Len(s.handlers) + 1
    IN [s1 EXCEPT !.scrollGroups[groupId].elements = SetAdd(@, el),
                  !.scrollGroups[groupId].listeners = MapSet(@, el, i),
                  !.handlers = Append(@, NewHandler(el, groupId, mergedOptions)),
                  !.dataset[el] = [group |-> groupId, options |-> mergedOptions]]

\* el.removeEventListener('scroll', listener)
RemoveEventListener(s, i) == [s EXCEPT !.handlers[i].attached = FALSE]

\* scrollGroups.delete(groupId): the object leaves the registry; the closures
\* created for it keep it, with the isPaused it has now.
DeleteGroup(s, groupId) ==
    [s EXCEPT !.scrollGroups = MapDelete(@, groupId),
              !.handlers = [i \in DOMAIN @ |->
                    IF @[i].groupId = groupId /\ ~@[i].orphan
                        THEN [@[i] EXCEPT !.orphan = TRUE,
                                !.orphanPaused = s.scrollGroups[groupId].isPaused]
                        ELSE @[i]]]

\* A faulty variant of RemoveFromScrollGroup: an emptied group is kept.
RemoveFromScrollGroup_KeepsEmpty(s, el, groupId) ==
    IF groupId \notin DOMAIN s.scrollGroups THEN s
    ELSE LET s1 == [s EXCEPT !.scrollGroups[groupId].elements = SetDelete(@, el)]
             listeners == s1.scrollGroups[groupId].listeners
             s2 == IF el \in DOMAIN listeners
                     THEN [RemoveEventListener(s1, listeners[el])
                             EXCEPT !.scrollGroups[groupId].listeners = MapDelete(@, el)]
                     ELSE s1
         IN [s2 EXCEPT !.dataset[el] = NoData]

\* A faulty variant of RemoveFromScrollGroup: the entry of group.listeners
\* is kept.
RemoveFromScrollGroup_KeepsEntry(s, el, groupId) ==
    IF groupId \notin DOMAIN s.scrollGroups THEN s
    ELSE LET s1 == [s EXCEPT !.scrollGroups[groupId].elements = SetDelete(@, el)]
             listeners == s1.scrollGroups[groupId].listeners
             s2 == IF el \in DOMAIN listeners
                     THEN RemoveEventListener(s1, listeners[el])
                     ELSE s1
             s3 == [s2 EXCEPT !.dataset[el] = NoData]
         IN IF s3.scrollGroups[groupId].elements = <<>>
                THEN DeleteGroup(s3, groupId)
                ELSE s3

\* removeFromScrollGroup(el, groupId)
RemoveFromScrollGroup(s, el, groupId) ==
    IF groupId \notin DOMAIN s.scrollGroups THEN s
    ELSE LET s1 == [s EXCEPT !.scrollGroups[groupId].elements = SetDelete(@, el)]
             listeners == s1.scrollGroups[groupId].listeners
             s2 == IF el \in DOMAIN listeners
                     THEN [RemoveEventListener(s1, listeners[el])
                             EXCEPT !.scrollGroups[groupId].listeners = MapDelete(@, el)]
                     ELSE s1
             s3 == [s2 EXCEPT !.dataset[el] = NoData]
         IN IF s3.scrollGroups[groupId].elements = <<>>
                THEN DeleteGroup(s3, groupId)
                ELSE s3

\* A faulty variant of PauseScrollGroup: an unknown identifier gets a paused
\* group.
PauseScrollGroup_CreatesGroup(s, groupId) ==
    IF groupId \in DOMAIN s.scrollGroups
        THEN [s EXCEPT !.scrollGroups[groupId].isPaused = TRUE]
        ELSE [s EXCEPT !.scrollGroups =
                MapSet(@, groupId, [NewGroup(DEFAULT_OPTIONS) EXCEPT !.isPaused = TRUE])]

\* pauseScrollGroup(groupId)
PauseScrollGroup(s, groupId) ==
    IF groupId \in DOMAIN s.scrollGroups
        THEN [s EXCEPT !.scrollGroups[groupId].isPaused = TRUE]
        ELSE s

\* resumeScrollGroup(groupId)
ResumeScrollGroup(s, groupId) ==
    IF groupId \in DOMAIN s.scrollGroups
        THEN [s EXCEPT !.scrollGroups[groupId].isPaused = FALSE]
        ELSE s

\* isScrollGroupPaused(groupId)
IsScrollGroupPaused(s, groupId) ==
    IF groupId \in DOMAIN s.scrollGroups
        THEN s.scrollGroups[groupId].isPaused
        ELSE FALSE

\* getScrollGroupElements(groupId)
GetScrollGroupElements(s, groupId) ==
    IF groupId \in DOMAIN s.scrollGroups
        THEN s.scrollGroups[groupId].elements
        ELSE <<>>

\* getAllScrollGroups(): the keys of the registry.
GetAllScrollGroups(s) == DOMAIN s.scrollGroups

\* A faulty variant of DestroyOne: every listener of the element is removed,
\* whatever group it was created for.
DestroyOne_RemovesAll(s, groupId, el) ==
    [s EXCEPT !.handlers = [i \in DOMAIN @ |->
                    IF @[i].el = el THEN [@[i] EXCEPT !.attached = FALSE] ELSE @[i]],
              !.dataset[el] = NoData]

\* The body of group.elements.forEach in destroyScrollGroup for one element.
DestroyOne(s, groupId, el) ==
    LET listeners == s.scrollGroups[groupId].listeners
        s1 == IF el \in DOMAIN listeners
                THEN RemoveEventListener(s, listeners[el])
                ELSE s
    IN [s1 EXCEPT !.dataset[el] = NoData]

RECURSIVE DestroyEach(_, _, _)
DestroyEach(s, groupId, els) ==
    IF els = <<>> THEN s
    ELSE DestroyEach(DestroyOne(s, groupId, Head(els)), groupId, Tail(els))

\* destroyScrollGroup(groupId)
DestroyScrollGroup(s, groupId) ==
    IF groupId \notin DOMAIN s.scrollGroups THEN s
    ELSE DeleteGroup(DestroyEach(s, groupId, s.scrollGroups[groupId].elements),
                     groupId)

RECURSIVE DestroyGroups(_, _)
DestroyGroups(s, ids) ==
    IF ids = {} THEN s
    ELSE LET g == CHOOSE x \in ids : TRUE
         IN DestroyGroups(DestroyScrollGroup(s, g), ids \ {g})

\* destroyAllScrollGroups()
DestroyAllScrollGroups(s) == DestroyGroups(s, GetAllScrollGroups(s))

\* The source triggerScrollSync resolves (line 201); NoEl is undefined.
TriggerSource(group, sourceElement) ==
    IF sourceElement # NoEl THEN sourceElement
    ELSE IF group.activeElement # NoEl THEN group.activeElement
    ELSE IF group.elements # <<>> THEN Head(group.elements)
    ELSE NoEl

\* triggerScrollSync(groupId, sourceElement)
TriggerScrollSync(s, groupId, sourceElement) ==
    IF groupId \notin DOMAIN s.scrollGroups \/ s.scrollGroups[groupId].isPaused
        THEN s
    ELSE LET source == TriggerSource(s.scrollGroups[groupId], sourceElement)
         IN IF source # NoEl THEN SyncScroll(s, source, groupId) ELSE s

RECURSIVE RefreshDataset(_, _, _)
RefreshDataset(s, els, opt) ==
    IF els = <<>> THEN s
    ELSE RefreshDataset([s EXCEPT !.dataset[Head(els)].options = opt], Tail(els), opt)

\* A faulty variant of UpdateScrollGroupOptions: the overrides are merged
\* onto the defaults.
UpdateScrollGroupOptions_FromDefaults(s, groupId, over) ==
    IF groupId \notin DOMAIN s.scrollGroups THEN s
    ELSE LET opt == MergeOptions(DEFAULT_OPTIONS, over)
         IN RefreshDataset([s EXCEPT !.scrollGroups[groupId].options = opt],
                           s.scrollGroups[groupId].elements, opt)

\* updateScrollGroupOptions(groupId, options)
UpdateScrollGroupOptions(s, groupId, over) ==
    IF groupId \notin DOMAIN s.scrollGroups THEN s
    ELSE LET opt == MergeOptions(s.scrollGroups[groupId].options, over)
         IN RefreshDataset([s EXCEPT !.scrollGroups[groupId].options = opt],
                           s.scrollGroups[groupId].elements, opt)

\* The timer of debounced closure i expires: func(...args) runs.
TimerExpires(s, i) ==
    ScrollHandler([s EXCEPT !.handlers[i].pending = FALSE,
                            !.handlers[i].due = 0,
                            !.handlers[i].args = NoEvent],
                  s.handlers[i])

\* The surface el scrolled to (t, l) by the user.
Moved(s, el, t, l) == [s EXCEPT !.top[el] = t, !.left[el] = l]

\* The 'scroll' Event of that.
ScrollEvent(el, t, l) == [target |-> el, top |-> t, left |-> l]

\* The host changes el's offsets (a user scroll) and delivers the 'scroll' event.
HostScroll(s, el, t, l) ==
    DeliverScroll(Moved(s, el, t, l), el, ScrollEvent(el, t, l), 1)

\* ------------------------------------------------- scroll notifications

\* The surfaces whose offsets differ between states s and t.
ChangedBy(s, t) ==
    { e \in Els : t.top[e] # s.top[e] \/ t.left[e] # s.left[e] }

\* The surfaces of a set as a queue.
RECURSIVE QueueOf(_)
QueueOf(S) ==
    IF S = {} THEN <<>>
    ELSE LET x == CHOOSE y \in S : TRUE
         IN <<x>> \o QueueOf(S \ {x})

\* The host delivers the 'scroll' event of el for the offsets el has.
Notify(s, el) ==
    DeliverScroll(s, el, ScrollEvent(el, s.top[el], s.left[el]), 1)

\* A host that sends a surface a 'scroll' event whenever its offsets were
\* changed, also by an assignment of syncScroll (lines 259-260): the events
\* of `queue' are delivered in turn, each write of a listener that changes
\* a surface's offsets queues an event for it, until none is left or `fuel'
\* events have been delivered.  The result is the state and the queue left.
RECURSIVE Cascade(_, _, _)
Cascade(s, queue, fuel) ==
    IF queue = <<>> \/ fuel = 0 THEN [state |-> s, queue |-> queue]
    ELSE LET t == Notify(s, Head(queue))
             more == ChangedBy(s, t) \ Range(Tail(queue))
         IN Cascade(t, Tail(queue) \o QueueOf(more), fuel - 1)

\* ------------------------------------------------------ closure garbage

\* A closure that is registered on no element and has no pending timer can
\* never run again.
Garbage(h) == ~h.attached /\ ~h.pending

\* The position of closure i once the garbage before it is dropped.
NewIndex(hs, i) == Cardinality({ j \in 1..i : ~Garbage(hs[j]) })

\* Drops the closures that can never run again; group.listeners follows.
Collect(s) ==
    [s EXCEPT !.handlers = SelectSeq(@, LAMBDA h : ~Garbage(h)),
              !.scrollGroups = [g \in DOMAIN @ |->
                    [@[g] EXCEPT !.listeners =
                        [e \in DOMAIN @ |-> NewIndex(s.handlers, @[e])]]]]

\* The timers that have expired in state s.
DueTimers(s) ==
    { i \in DOMAIN s.handlers : s.handlers[i].pending /\ s.handlers[i].due <= s.now }

\* k units of time pass.
Elapse(s, k) == [s EXCEPT !.now = @ + k]

\* One unit of time passes.
AdvanceClock(s) == Elapse(s, 1)

\* -------------------------------------------------------------- actions

\* Offsets stay within the modelled range.
InRange(s) ==
    \A e \in Els : /\ s.top[e] \in 0..MaxOffset
                   /\ s.left[e] \in 0..MaxOffset

\* The step to the state t an operation returns.
Apply(t) ==
    \E s \in {Collect(t)} :
       /\ InRange(s)
       /\ scrollGroups' = s.scrollGroups
       /\ handlers' = s.handlers
       /\ scrollTop' = s.top
       /\ scrollLeft' = s.left
       /\ dataset' = s.dataset
       /\ now' = s.now
       /\ emitted' = s.emitted

Join(el, groupId, over) == Apply(AddToScrollGroup(State, el, groupId, over))

Leave(el, groupId) == Apply(RemoveFromScrollGroup(State, el, groupId))

Pause(groupId) == Apply(PauseScrollGroup(State, groupId))

Resume(groupId) == Apply(ResumeScrollGroup(State, groupId))

Destroy(groupId) == Apply(DestroyScrollGroup(State, groupId))

DestroyAll == Apply(DestroyAllScrollGroups(State))

Trigger(groupId, sourceElement) ==
    Apply(TriggerScrollSync(State, groupId, sourceElement))

Update(groupId, over) == Apply(UpdateScrollGroupOptions(State, groupId, over))

Scroll(el, t, l) == Apply(HostScroll(State, el, t, l))

TimerFire(i) ==
    /\ i \in DueTimers(State)
    /\ Apply(TimerExpires(State, i))

\* Time passes; a timer that has expired runs before the clock moves on.
Tick ==
    /\ DueTimers(State) = {}
    /\ Apply(AdvanceClock(State))

Init ==
    /\ scrollGroups = [g \in {} |-> 0]
    /\ handlers = <<>>
    /\ scrollTop = [e \in Els |-> 0]
    /\ scrollLeft = [e \in Els |-> 0]
    /\ dataset = [e \in Els |-> NoData]
    /\ now = StartTime
    /\ emitted = <<>>

\* ------------------------------------------------- lifecycle behaviours

\* Two surfaces and one identifier; joins with and without a debounce delay;
\* vertical scrolls.
LifeEls == {"a", "b"}
LifeGids == {"g"}
LifeOverrides == { NoOverride, [debounceMs |-> 1] }
LifeMaxHandlers == 2
LifeMaxTime == 1

Next ==
    \/ \E el \in LifeEls, g \in LifeGids, over \in LifeOverrides :
            Len(handlers) < LifeMaxHandlers /\ Join(el, g, over)
    \/ \E el \in LifeEls, g \in LifeGids : Leave(el, g)
    \/ \E g \in LifeGids : Pause(g)
    \/ \E g \in LifeGids : Resume(g)
    \/ \E g \in LifeGids : Destroy(g)
    \/ DestroyAll
    \/ \E g \in LifeGids, src \in LifeEls \cup {NoEl} : Trigger(g, src)
    \/ \E g \in LifeGids, over \in LifeOverrides : Update(g, over)
    \/ \E el \in LifeEls, t \in 0..1 : Scroll(el, t, 0)
    \/ \E i \in DOMAIN handlers : TimerFire(i)
    \/ now < StartTime + LifeMaxTime /\ Tick

Spec == Init /\ [][Next]_vars

\* -------------------------------------------------- dispatch behaviours

\* Three surfaces; joins with and without a ratio; scrolls on either axis;
\* no rate limiting.
DispOverrides == { NoOverride, [scrollRatio |-> 2] }
DispScrolls == { <<0, 0>>, <<1, 0>>, <<0, 1>> }
DispMaxHandlers == 3

NextDispatch ==
    \/ \E el \in Els, g \in Gids, over \in DispOverrides :
            Len(handlers) < DispMaxHandlers /\ Join(el, g, over)
    \/ \E g \in Gids : Pause(g)
    \/ \E g \in Gids : Resume(g)
    \/ \E g \in Gids, src \in Els \cup {NoEl} : Trigger(g, src)
    \/ \E el \in Els, p \in DispScrolls : Scroll(el, p[1], p[2])

SpecDispatch == Init /\ [][NextDispatch]_vars

\* ----------------------------------------------------- pause behaviours

\* Two surfaces and one identifier; unwrapped, debounced and throttled
\* listeners; pause and resume, destroy and re-creation.
PauseOverrides == { NoOverride, [debounceMs |-> 1], [throttleMs |-> 1] }

NextPause ==
    \/ \E el \in LifeEls, g \in LifeGids, over \in PauseOverrides :
            Len(handlers) < LifeMaxHandlers /\ Join(el, g, over)
    \/ \E g \in LifeGids : Pause(g)
    \/ \E g \in LifeGids : Resume(g)
    \/ \E g \in LifeGids : Destroy(g)
    \/ \E g \in LifeGids, src \in LifeEls \cup {NoEl} : Trigger(g, src)
    \/ \E el \in LifeEls, t \in 0..1 : Scroll(el, t, 0)
    \/ \E i \in DOMAIN handlers : TimerFire(i)
    \/ now < StartTime + LifeMaxTime /\ Tick

SpecPause == Init /\ [][NextPause]_vars

\* ----------------------------------------------------- timed behaviours

\* Two surfaces and one identifier; debounced and throttled listeners with a
\* delay of two ticks; scrolls and the clock.
TimedOverrides == { [debounceMs |-> 2], [throttleMs |-> 2] }
TimedMaxTime == 3

NextTimed ==
    \/ \E el \in LifeEls, g \in LifeGids, over \in TimedOverrides :
            Len(handlers) < LifeMaxHandlers /\ Join(el, g, over)
    \/ \E el \in LifeEls, t \in 0..1 : Scroll(el, t, 0)
    \/ \E i \in DOMAIN handlers : TimerFire(i)
    \/ now < StartTime + TimedMaxTime /\ Tick

SpecTimed == Init /\ [][NextTimed]_vars

\* ------------------------------------------------------ axis behaviours

\* Two surfaces and one identifier; the axes and the smooth mode switched by
\* configuration updates; scrolls on both axes.
AxisOverrides ==
    { [horizontal |-> FALSE], [horizontal |-> TRUE],
      [vertical |-> FALSE], [vertical |-> TRUE],
      [smooth |-> TRUE], [smooth |-> FALSE] }
AxisScrolls == { <<0, 0>>, <<1, 0>>, <<0, 1>>, <<1, 1>> }

NextAxis ==
    \/ \E el \in LifeEls, g \in LifeGids :
            Len(handlers) < LifeMaxHandlers /\ Join(el, g, NoOverride)
    \/ \E g \in LifeGids, over \in AxisOverrides : Update(g, over)
    \/ \E g \in LifeGids, src \in LifeEls \cup {NoEl} : Trigger(g, src)
    \/ \E el \in LifeEls, p \in AxisScrolls : Scroll(el, p[1], p[2])

SpecAxis == Init /\ [][NextAxis]_vars

\* ------------------------------------------------ two-group behaviours

\* Two surfaces and two identifiers, so that a surface can be in two groups;
\* unwrapped listeners; vertical scrolls.
MultiGids == {"g", "h"}
MultiOverrides == { NoOverride, [scrollRatio |-> 2] }
MultiMaxHandlers == 3

NextMulti ==
    \/ \E el \in LifeEls, g \in MultiGids :
            Len(handlers) < MultiMaxHandlers /\ Join(el, g, NoOverride)
    \/ \E el \in LifeEls, g \in MultiGids : Leave(el, g)
    \/ \E g \in MultiGids : Pause(g)
    \/ \E g \in MultiGids : Resume(g)
    \/ \E g \in MultiGids : Destroy(g)
    \/ \E g \in MultiGids, src \in LifeEls \cup {NoEl} : Trigger(g, src)
    \/ \E el \in LifeEls, t \in 0..1 : Scroll(el, t, 0)

SpecMulti == Init /\ [][NextMulti]_vars

\* --------------------------------------------------- wrapper behaviours

\* Two surfaces and one identifier; joins with no delay, with a throttle
\* delay, and with both delays; scrolls and the clock.
WrapOverrides ==
    { NoOverride, [throttleMs |-> 2], [debounceMs |-> 2, throttleMs |-> 1] }

NextWrap ==
    \/ \E el \in LifeEls, g \in LifeGids, over \in WrapOverrides :
            Len(handlers) < LifeMaxHandlers /\ Join(el, g, over)
    \/ \E el \in LifeEls, t \in 0..1 : Scroll(el, t, 0)
    \/ \E i \in DOMAIN handlers : TimerFire(i)
    \/ now < StartTime + TimedMaxTime /\ Tick

SpecWrap == Init /\ [][NextWrap]_vars

\* ---------------------------------------------------------------- views

\* The members of group g as a set.
Members(g) == Range(scrollGroups[g].elements)

\* The listeners registered on el that were installed for group g.
Attached(el, g) ==
    { i \in DOMAIN handlers :
        handlers[i].attached /\ handlers[i].el = el /\ handlers[i].groupId = g }

\* The events of a sequence that were dispatched for group g.
EventsFor(evts, g) == SelectSeq(evts, LAMBDA e : e.groupId = g)

\* State t has the offsets and the groups of the current state.
SameOffsets(t) == t.top = scrollTop /\ t.left = scrollLeft
SameGroups(t) == t.scrollGroups = scrollGroups

\* ----------------------------------------------------------------- C1

\* C1 (as claimed): after any sequence of joins a surface has at most one
\* registered listener per group, so that one scroll notification on it
\* causes at most one dispatch for that group.
C1_RejoinReplaces ==
    \A el \in Els, g \in Gids :
        /\ Cardinality(Attached(el, g)) <= 1
        /\ \A t \in 0..1 :
              Len(EventsFor(HostScroll(State, el, t, 0).emitted, g)) <= 1

\* ----------------------------------------------------------------- C2

\* C2 (as claimed): a join to a group that exists leaves the group's
\* configuration equal to its previous configuration with the overrides
\* merged onto it.
C2_JoinMergesOntoCurrent ==
    \A el \in Els, g \in DOMAIN scrollGroups, over \in DispOverrides :
        AddToScrollGroup(State, el, g, over).scrollGroups[g].options
            = MergeOptions(scrollGroups[g].options, over)

\* ----------------------------------------------------------------- C3

\* C3 (as claimed): the timer of a listener that leave, destroy or destroyAll
\* has removed changes no offset and no group when it fires.
C3_StaleTimerInert ==
    \A i \in DOMAIN handlers :
        (~handlers[i].attached /\ handlers[i].pending) =>
            LET t == TimerExpires(State, i)
            IN SameOffsets(t) /\ SameGroups(t) /\ t.emitted = <<>>

\* ----------------------------------------------------------------- C4

\* The surfaces that are registered: members of a group or with a listener.
Registered ==
    { el \in Els : \/ \E g \in DOMAIN scrollGroups : el \in Members(g)
                   \/ \E i \in DOMAIN handlers : handlers[i].attached /\ handlers[i].el = el }

\* C4 (as claimed): after destroyAll the registry has no key, and a scroll
\* notification on a surface registered before it dispatches nothing, also
\* once another surface has created a group.
C4_DestroyIsTotal ==
    LET d == Collect(DestroyAllScrollGroups(State))
    IN /\ GetAllScrollGroups(d) = {}
       /\ \A el \in Registered, t \in 0..1 :
            /\ HostScroll(d, el, t, 0).emitted = <<>>
            /\ \A other \in Els \ {el}, g \in Gids :
                 LET j == AddToScrollGroup(d, other, g, NoOverride)
                     u == HostScroll(j, el, t, 0)
                 IN /\ u.emitted = <<>>
                    /\ \A e \in Els \ {el} : u.top[e] = j.top[e] /\ u.left[e] = j.left[e]

\* ----------------------------------------------------------------- C5

\* Operation result t wrote no offset, changed no group and dispatched nothing.
NoEffect(t) == SameOffsets(t) /\ SameGroups(t) /\ t.emitted = <<>>

\* Operation result t moved no surface but el.
OnlyMoved(t, el) ==
    \A e \in Els \ {el} : t.top[e] = scrollTop[e] /\ t.left[e] = scrollLeft[e]

\* In result t every member of g but src has src's offsets (tp, lf) scaled
\* by g's ratio.
Propagated(t, g, src, tp, lf) ==
    \A e \in Members(g) \ {src} :
        /\ t.top[e] = tp * scrollGroups[g].options.scrollRatio
        /\ t.left[e] = lf * scrollGroups[g].options.scrollRatio

\* While g is paused a manual trigger, an expiring debounce timer and a
\* scroll notification change no offset (but the scrolled surface's own), no
\* group state, and dispatch nothing.
PausedSuppresses(g) ==
    /\ \A src \in Els \cup {NoEl} :
            NoEffect(TriggerScrollSync(State, g, src))
    /\ \A i \in DOMAIN handlers :
            (handlers[i].pending /\ handlers[i].groupId = g) =>
                NoEffect(TimerExpires(State, i))
    /\ \A el \in Els, tp \in 0..1 :
            LET t == HostScroll(State, el, tp, 0)
            IN /\ OnlyMoved(t, el)
               /\ SameGroups(t)
               /\ EventsFor(t.emitted, g) = <<>>

\* In state r a manual trigger from member src of g propagates.
TriggerPropagates(r, g, src) ==
    LET t == TriggerScrollSync(r, g, src)
    IN /\ Propagated(t, g, src, scrollTop[src], scrollLeft[src])
       /\ Len(t.emitted) = 1
       /\ t.scrollGroups[g].activeElement = src

\* In state r a scroll notification on member src of g (to offset tp)
\* propagates at once.
ScrollPropagates(r, g, src, tp) ==
    LET t == HostScroll(r, src, tp, 0)
    IN Propagated(t, g, src, tp, 0) /\ EventsFor(t.emitted, g) # <<>>

\* In state r a scroll notification on member src of g, whose listener i is
\* debounced, propagates when the timer it sets expires.
ScrollPropagatesLater(r, g, src, tp, i) ==
    LET t == TimerExpires(HostScroll(r, src, tp, 0), i)
    IN Propagated(t, g, src, tp, 0) /\ EventsFor(t.emitted, g) # <<>>

\* C5 (as claimed): while a group is paused nothing propagates, and once it
\* is resumed a manual trigger and the next scroll notification on a member
\* propagate again (through a debounced listener, when its timer expires).
C5_AsClaimed ==
    \A g \in DOMAIN scrollGroups :
        scrollGroups[g].isPaused =>
            /\ PausedSuppresses(g)
            /\ LET r == ResumeScrollGroup(State, g)
               IN \A src \in Members(g), tp \in 0..1 :
                    LET i == scrollGroups[g].listeners[src]
                    IN /\ TriggerPropagates(r, g, src)
                       /\ IF handlers[i].kind = "debounce"
                            THEN ScrollPropagatesLater(r, g, src, tp, i)
                            ELSE ScrollPropagates(r, g, src, tp)

\* C5 (amended): as claimed, but through a throttled listener the next
\* scroll notification propagates only if the listener's window since its
\* last call has elapsed; a call suppressed during the pause counts.
C5_PausedNoPropagation ==
    \A g \in DOMAIN scrollGroups :
        scrollGroups[g].isPaused =>
            /\ PausedSuppresses(g)
            /\ LET r == ResumeScrollGroup(State, g)
               IN \A src \in Members(g), tp \in 0..1 :
                    LET i == scrollGroups[g].listeners[src]
                    IN /\ TriggerPropagates(r, g, src)
                       /\ handlers[i].kind = "debounce" =>
                            ScrollPropagatesLater(r, g, src, tp, i)
                       /\ handlers[i].kind = "raw" =>
                            ScrollPropagates(r, g, src, tp)
                       /\ (/\ handlers[i].kind = "throttle"
                           /\ now - handlers[i].lastCall >= handlers[i].delay) =>
                            ScrollPropagates(r, g, src, tp)

\* A paused group with two members at different offsets, one of them with
\* an expired debounce timer.
C5_Witness ==
    \E g \in DOMAIN scrollGroups, i \in DOMAIN handlers :
        /\ scrollGroups[g].isPaused
        /\ handlers[i].pending /\ handlers[i].due <= now
        /\ handlers[i].groupId = g /\ ~handlers[i].orphan
        /\ handlers[i].el \in Members(g)
        /\ \E e \in Members(g) : scrollTop[e] # scrollTop[handlers[i].el]

\* ----------------------------------------------------------------- C6

\* C6: a dispatch never writes the offsets of its source: syncScroll from
\* any surface, a manual trigger, the call an expiring timer makes and the
\* listeners run by a scroll notification all leave the source where it is.
C6_NoSelfWrite ==
    /\ \A g \in Gids, src \in Els :
            LET t == SyncScroll(State, src, g)
            IN t.top[src] = scrollTop[src] /\ t.left[src] = scrollLeft[src]
    /\ \A g \in Gids, src \in Els \cup {NoEl} :
            LET t == TriggerScrollSync(State, g, src)
            IN \A k \in DOMAIN t.emitted :
                 /\ t.top[t.emitted[k].sourceElement] = scrollTop[t.emitted[k].sourceElement]
                 /\ t.left[t.emitted[k].sourceElement] = scrollLeft[t.emitted[k].sourceElement]
    /\ \A i \in DOMAIN handlers :
            LET t == TimerExpires(State, i)
            IN /\ t.top[handlers[i].el] = scrollTop[handlers[i].el]
               /\ t.left[handlers[i].el] = scrollLeft[handlers[i].el]
    /\ \A el \in Els, p \in DispScrolls :
            LET t == HostScroll(State, el, p[1], p[2])
            IN t.top[el] = p[1] /\ t.left[el] = p[2]

\* A dispatch from a with ratio 2 has happened: b was written, a was not.
C6_Witness ==
    /\ "g" \in DOMAIN scrollGroups
    /\ scrollGroups["g"].options.scrollRatio = 2
    /\ {"a", "b"} \subseteq Members("g")
    /\ emitted = <<[groupId |-> "g", sourceElement |-> "a",
                    scrollTop |-> 1, scrollLeft |-> 0]>>
    /\ scrollTop["a"] = 1 /\ scrollTop["b"] = 2

\* ----------------------------------------------------------------- C7

\* In result t the members of g but src have (tp, lf) scaled by g's ratio and
\* every other surface but `moved' is where it was.
FannedOut(t, g, src, tp, lf, moved) ==
    \A e \in Els :
        IF e \in Members(g) \ {src}
            THEN /\ t.top[e] = tp * scrollGroups[g].options.scrollRatio
                 /\ t.left[e] = lf * scrollGroups[g].options.scrollRatio
            ELSE e \notin moved => (t.top[e] = scrollTop[e] /\ t.left[e] = scrollLeft[e])

\* C7: in a group that is not paused, with both axes on and smooth off, a
\* dispatch from member src (by syncScroll, a manual trigger, or a scroll
\* notification through an unwrapped listener) sets every other member to
\* src's offsets times the group's ratio and moves no other surface.
C7_FanOut ==
    \A g \in DOMAIN scrollGroups :
        LET opt == scrollGroups[g].options
        IN (~scrollGroups[g].isPaused /\ opt.vertical /\ opt.horizontal /\ ~opt.smooth) =>
            \A src \in Members(g) :
                /\ FannedOut(SyncScroll(State, src, g), g, src,
                             scrollTop[src], scrollLeft[src], {})
                /\ FannedOut(TriggerScrollSync(State, g, src), g, src,
                             scrollTop[src], scrollLeft[src], {})
                /\ handlers[scrollGroups[g].listeners[src]].kind = "raw" =>
                      \A p \in DispScrolls :
                          FannedOut(HostScroll(State, src, p[1], p[2]), g, src,
                                    p[1], p[2], {src})

\* A dispatch from a in a group of three with ratio 2 has set both others.
C7_Witness ==
    /\ "g" \in DOMAIN scrollGroups
    /\ scrollGroups["g"].options.scrollRatio = 2
    /\ Members("g") = {"a", "b", "c"}
    /\ emitted = <<[groupId |-> "g", sourceElement |-> "a",
                    scrollTop |-> 0, scrollLeft |-> 1]>>
    /\ scrollLeft = [a |-> 1, b |-> 2, c |-> 2]

\* ----------------------------------------------------------------- C8

\* C8: no group in the registry has an empty member set, and removing every
\* member of a group, in any order, leaves the registry without its key and
\* getScrollGroupElements empty.
C8_NoEmptyGroup ==
    \A g \in DOMAIN scrollGroups :
        /\ scrollGroups[g].elements # <<>>
        /\ \A x \in Members(g), y \in Members(g) :
              Members(g) = {x, y} =>
                  LET t == RemoveFromScrollGroup(RemoveFromScrollGroup(State, x, g), y, g)
                  IN /\ g \notin GetAllScrollGroups(t)
                     /\ GetScrollGroupElements(t, g) = <<>>

\* The group has been deleted while a closure created for it was alive, and
\* no surface carries a marker.
C8_Witness ==
    /\ "g" \notin DOMAIN scrollGroups
    /\ \E i \in DOMAIN handlers : handlers[i].orphan /\ handlers[i].pending
    /\ \A e \in Els : dataset[e] = NoData

\* ----------------------------------------------------------------- C9

\* The surface el scrolls to each offset of offs in turn, `gap' apart, and
\* listener i is called with each event; the state at the last call.
RECURSIVE Burst(_, _, _, _, _)
Burst(s, i, el, offs, gap) ==
    LET t == CallListener(Moved(s, el, Head(offs), 0), i,
                          ScrollEvent(el, Head(offs), 0))
    IN IF Len(offs) = 1 THEN t
       ELSE Burst(Elapse(t, gap), i, el, Tail(offs), gap)

\* After burst result b of listener i (delay d) on member el of g, whose
\* last offset is last: nothing was dispatched, the timer is not due before
\* d has passed since the last call, it is due then, and its expiry
\* dispatches once, from el with the last offset, and leaves no timer.
CollapsedTo(b, i, g, el, d, last) ==
    /\ b.emitted = <<>>
    /\ \A e \in Els \ {el} : b.top[e] = scrollTop[e] /\ b.left[e] = scrollLeft[e]
    /\ \A k \in 0..(d - 1) : i \notin DueTimers(Elapse(b, k))
    /\ i \in DueTimers(Elapse(b, d))
    /\ LET f == TimerExpires(Elapse(b, d), i)
       IN /\ f.emitted = <<[groupId |-> g, sourceElement |-> el,
                            scrollTop |-> last, scrollLeft |-> 0]>>
          /\ Propagated(f, g, el, last, 0)
          /\ ~f.handlers[i].pending

\* The offsets of the ten notifications of the example.
TenOffsets == <<0, 1, 0, 1, 0, 1, 0, 1, 0, 1>>

\* C9: a call of a debounced listener dispatches nothing and sets its timer
\* to the delay d from now with this event, replacing the pending one; a
\* burst of notifications less than d apart therefore ends in exactly one
\* dispatch, d after the last of them, with the offset of the last; so do
\* ten notifications 5 apart through a listener joined with debounceMs 50.
C9_DebounceCollapses ==
    \A g \in DOMAIN scrollGroups :
        ~scrollGroups[g].isPaused =>
            \A el \in Members(g) :
                LET i == scrollGroups[g].listeners[el]
                    h == handlers[i]
                IN /\ h.kind = "debounce" =>
                        /\ h.pending => (now <= h.due /\ h.due <= now + h.delay)
                        /\ \A tp \in 0..1 :
                             LET t == CallListener(Moved(State, el, tp, 0), i,
                                                   ScrollEvent(el, tp, 0))
                             IN /\ t.emitted = <<>>
                                /\ OnlyMoved(t, el) /\ SameGroups(t)
                                /\ t.handlers[i].pending
                                /\ t.handlers[i].due = now + h.delay
                                /\ t.handlers[i].args = ScrollEvent(el, tp, 0)
                        /\ \A o1 \in 0..1, o2 \in 0..1, o3 \in 0..1,
                              gap \in 0..(h.delay - 1) :
                             CollapsedTo(Burst(State, i, el, <<o1, o2, o3>>, gap),
                                         i, g, el, h.delay, o3)
                   /\ LET j == AddToScrollGroup(State, el, g, [debounceMs |-> 50])
                          n == Len(handlers) + 1
                      IN CollapsedTo(Burst(j, n, el, TenOffsets, 5),
                                     n, g, el, 50, 1)

\* The timer of a's debounced listener has fired two ticks after the scroll
\* that set it, and b has received a's offset.
C9_Witness ==
    /\ "g" \in DOMAIN scrollGroups
    /\ Members("g") = {"a", "b"}
    /\ \A i \in Attached("a", "g") :
            handlers[i].kind = "debounce" /\ ~handlers[i].pending
    /\ emitted = <<[groupId |-> "g", sourceElement |-> "a",
                    scrollTop |-> 1, scrollLeft |-> 0]>>
    /\ scrollTop["a"] = 1 /\ scrollTop["b"] = 1
    /\ now >= StartTime + 2

\* ---------------------------------------------------------------- C10

\* Listener i of member el is called at each of the times of `times' (from
\* now) after el scrolled to 1; the number of dispatches at each call.
RECURSIVE DispatchCounts(_, _, _, _)
DispatchCounts(s, i, el, times) ==
    IF times = <<>> THEN <<>>
    ELSE LET at == [s EXCEPT !.now = now + Head(times), !.emitted = <<>>]
             t == CallListener(Moved(at, el, 1, 0), i, ScrollEvent(el, 1, 0))
         IN <<Len(t.emitted)>> \o DispatchCounts(t, i, el, Tail(times))

\* C10: a call of a throttled listener dispatches at once, and restarts the
\* window, if the delay d has passed since its last call that did, and
\* otherwise changes nothing and schedules nothing; the first call finds the
\* window open; calls at 0, 10, 20 and 150 through a listener joined with
\* throttleMs 100 dispatch at 0 and 150 only.
C10_ThrottleLeadingEdge ==
    \A g \in DOMAIN scrollGroups :
        ~scrollGroups[g].isPaused =>
            \A el \in Members(g) :
                LET i == scrollGroups[g].listeners[el]
                    h == handlers[i]
                IN /\ h.kind = "throttle" =>
                        /\ ~h.pending
                        /\ h.lastCall = 0 => now - h.lastCall >= h.delay
                        /\ \A tp \in 0..1 :
                             LET m == Moved(State, el, tp, 0)
                                 t == CallListener(m, i, ScrollEvent(el, tp, 0))
                             IN IF now - h.lastCall >= h.delay
                                  THEN /\ t.emitted =
                                            <<[groupId |-> g, sourceElement |-> el,
                                               scrollTop |-> tp, scrollLeft |-> 0]>>
                                       /\ Propagated(t, g, el, tp, 0)
                                       /\ t.handlers[i].lastCall = now
                                       /\ ~t.handlers[i].pending
                                  ELSE t = m
                   /\ LET j == AddToScrollGroup(State, el, g, [throttleMs |-> 100])
                          n == Len(handlers) + 1
                      IN DispatchCounts(j, n, el, <<0, 10, 20, 150>>) = <<1, 0, 0, 1>>

\* A scroll of a within the window of its throttled listener has been
\* dropped: b still has the offset of the dispatch that opened the window.
C10_Witness ==
    /\ "g" \in DOMAIN scrollGroups
    /\ Members("g") = {"a", "b"}
    /\ \E i \in DOMAIN handlers :
          /\ Attached("a", "g") = {i}
          /\ handlers[i].kind = "throttle"
          /\ handlers[i].lastCall = StartTime
          /\ now = StartTime + 1
    /\ \A i \in Attached("b", "g") : handlers[i].lastCall = 0
    /\ scrollTop["a"] = 0 /\ scrollTop["b"] = 1
    /\ emitted = <<>>

\* ---------------------------------------------------------------- C11

\* In result t of a dispatch from src in g, every other member of g has on
\* each axis that g's configuration enables src's offset (tp, lf) times the
\* ratio, and on each axis it disables the offset it had.
AxesMasked(t, g, src, tp, lf) ==
    LET opt == scrollGroups[g].options
    IN \A e \in Members(g) \ {src} :
          /\ t.top[e] = IF opt.vertical THEN tp * opt.scrollRatio ELSE scrollTop[e]
          /\ t.left[e] = IF opt.horizontal THEN lf * opt.scrollRatio ELSE scrollLeft[e]

\* C11: a dispatch (by syncScroll, a manual trigger or a scroll notification)
\* writes to the followers only the axes the group's configuration enables:
\* with horizontal off their horizontal offsets stay, with vertical off
\* their vertical offsets stay, with both off nothing is written; in smooth
\* mode as in direct assignment.
C11_AxisMasking ==
    \A g \in DOMAIN scrollGroups :
        ~scrollGroups[g].isPaused =>
            \A src \in Members(g) :
                /\ AxesMasked(SyncScroll(State, src, g), g, src,
                              scrollTop[src], scrollLeft[src])
                /\ AxesMasked(TriggerScrollSync(State, g, src), g, src,
                              scrollTop[src], scrollLeft[src])
                /\ \A p \in AxisScrolls :
                      AxesMasked(HostScroll(State, src, p[1], p[2]), g, src,
                                 p[1], p[2])

\* A smooth dispatch from a at (1, 1) with the horizontal axis off has moved
\* b vertically and left its horizontal offset.
C11_Witness ==
    /\ "g" \in DOMAIN scrollGroups
    /\ Members("g") = {"a", "b"}
    /\ scrollGroups["g"].options.smooth
    /\ scrollGroups["g"].options.vertical
    /\ ~scrollGroups["g"].options.horizontal
    /\ emitted = <<[groupId |-> "g", sourceElement |-> "a",
                    scrollTop |-> 1, scrollLeft |-> 1]>>
    /\ scrollTop["b"] = 1 /\ scrollLeft["b"] = 0

\* ---------------------------------------------------------------- C12

\* Operation result t left the registry, the listeners, the markers and the
\* offsets as they are, and dispatched nothing.
Unchanged(t) ==
    /\ t.scrollGroups = scrollGroups
    /\ t.handlers = handlers
    /\ t.dataset = dataset
    /\ SameOffsets(t)
    /\ t.emitted = <<>>

\* C12 (as claimed): leave(el, g) for a group g that exists and of which el
\* is not a member changes nothing: not the registry, not a listener, and
\* not el's marker.
C12_LeaveNonMemberNoOp ==
    \A g \in DOMAIN scrollGroups :
        \A el \in Els \ Members(g) :
            Unchanged(RemoveFromScrollGroup(State, el, g))

\* ---------------------------------------------------------------- C13

\* C13: for an identifier that is not a key of the registry, leave, pause,
\* resume, destroy, a configuration update and a manual trigger change
\* nothing (no group is created, no listener, marker or offset changes),
\* isScrollGroupPaused is false and getScrollGroupElements is empty.
C13_LookupMissNoOp ==
    \A g \in MultiGids \ DOMAIN scrollGroups :
        /\ \A el \in Els : Unchanged(RemoveFromScrollGroup(State, el, g))
        /\ Unchanged(PauseScrollGroup(State, g))
        /\ Unchanged(ResumeScrollGroup(State, g))
        /\ Unchanged(DestroyScrollGroup(State, g))
        /\ \A over \in MultiOverrides :
                Unchanged(UpdateScrollGroupOptions(State, g, over))
        /\ \A src \in Els \cup {NoEl} :
                Unchanged(TriggerScrollSync(State, g, src))
        /\ IsScrollGroupPaused(State, g) = FALSE
        /\ GetScrollGroupElements(State, g) = <<>>

\* Group g is unknown while h has both surfaces, a carries h's marker and a
\* listener created for g is still registered on a.
C13_Witness ==
    /\ DOMAIN scrollGroups = {"h"}
    /\ Members("h") = {"a", "b"}
    /\ dataset["a"].group = "h"
    /\ \E i \in DOMAIN handlers :
          /\ handlers[i].attached /\ handlers[i].el = "a"
          /\ handlers[i].groupId = "g"

\* ---------------------------------------------------------------- C14

\* The overrides a configuration update is tried with.
UpdateOverrides ==
    { [scrollRatio |-> 2], [horizontal |-> FALSE], [vertical |-> FALSE],
      [smooth |-> TRUE], [debounceMs |-> 3], [debounceMs |-> 0],
      [throttleMs |-> 3], [vertical |-> FALSE, scrollRatio |-> 2] }

\* C14: updateScrollGroupOptions(g, over) sets g's configuration to its
\* current configuration with the overrides merged onto it and refreshes
\* the members' markers; members, recorded listeners, the paused flag and
\* the active element of g, every listener closure with its wrapper and
\* pending timer, every other group and every offset stay as they are, and
\* nothing is dispatched.  A listener therefore keeps the policy of its
\* join, while the next dispatch uses the new axes and ratio.
C14_UpdateOnlyConfiguration ==
    \A g \in DOMAIN scrollGroups, over \in UpdateOverrides :
        LET u == UpdateScrollGroupOptions(State, g, over)
            opt == MergeOptions(scrollGroups[g].options, over)
        IN /\ u.scrollGroups = [scrollGroups EXCEPT ![g].options = opt]
           /\ u.handlers = handlers
           /\ SameOffsets(u) /\ u.emitted = <<>> /\ u.now = now
           /\ \A e \in Els :
                u.dataset[e] = IF e \in Members(g)
                                 THEN [dataset[e] EXCEPT !.options = opt]
                                 ELSE dataset[e]
           /\ \A src \in Members(g) :
                LET i == scrollGroups[g].listeners[src]
                    d == SyncScroll(u, src, g)
                    c == CallListener(Moved(u, src, 1, 0), i, ScrollEvent(src, 1, 0))
                IN /\ ~scrollGroups[g].isPaused =>
                        \A e \in Members(g) \ {src} :
                           /\ d.top[e] = IF opt.vertical
                                           THEN scrollTop[src] * opt.scrollRatio
                                           ELSE scrollTop[e]
                           /\ d.left[e] = IF opt.horizontal
                                            THEN scrollLeft[src] * opt.scrollRatio
                                            ELSE scrollLeft[e]
                   /\ handlers[i].kind = "debounce" =>
                        /\ c.emitted = <<>>
                        /\ c.handlers[i].pending
                        /\ c.handlers[i].due = now + handlers[i].delay
                   /\ (handlers[i].kind = "raw" /\ ~scrollGroups[g].isPaused) =>
                        Len(c.emitted) = 1

\* The configuration of g has a debounce delay a member's listener does not
\* have: the update changed the configuration and the marker, not the listener.
C14_Witness ==
    /\ "g" \in DOMAIN scrollGroups
    /\ scrollGroups["g"].options.debounceMs = 1
    /\ Members("g") = {"a", "b"}
    /\ handlers[scrollGroups["g"].listeners["a"]].kind = "raw"
    /\ dataset["a"].options = scrollGroups["g"].options
    /\ \E i \in DOMAIN handlers : handlers[i].pending

\* ---------------------------------------------------------------- C15

\* The number of 'scroll' events one user scroll may cause.
CascadeBound == 8

\* C15 (as claimed): on a host that notifies a surface whenever its offsets
\* change, one user scroll on a member of a group that is not paused (its
\* listeners unwrapped) is followed by finitely many notifications, here at
\* most CascadeBound, after which no notification is left, whatever the
\* group's ratio.
C15_NoFeedbackLoop ==
    \A g \in DOMAIN scrollGroups :
        ~scrollGroups[g].isPaused =>
            \A src \in Members(g), tp \in 0..1 :
                Cascade(Moved(State, src, tp, 0), <<src>>, CascadeBound).queue = <<>>

\* ---------------------------------------------------------------- C16

\* C16: in every group of the registry the keys of group.listeners are the
\* members of the group, and the listener recorded for a member is a closure
\* created for that member and that group object which is registered on it.
C16_ListenersMatchMembers ==
    \A g \in DOMAIN scrollGroups :
        /\ DOMAIN scrollGroups[g].listeners = Members(g)
        /\ \A el \in Members(g) :
              LET i == scrollGroups[g].listeners[el]
              IN /\ i \in DOMAIN handlers
                 /\ handlers[i].attached /\ ~handlers[i].orphan
                 /\ handlers[i].el = el /\ handlers[i].groupId = g

\* Surface a has left g, its debounce timer still pending, and b is the
\* only member and the only key of the listeners of g.
C16_Witness ==
    /\ "g" \in DOMAIN scrollGroups
    /\ Members("g") = {"b"}
    /\ DOMAIN scrollGroups["g"].listeners = {"b"}
    /\ \E i \in DOMAIN handlers :
          /\ handlers[i].el = "a" /\ handlers[i].groupId = "g"
          /\ ~handlers[i].attached /\ ~handlers[i].orphan /\ handlers[i].pending

\* ---------------------------------------------------------------- C17

\* C17 (as claimed): the active element of a group is absent or one of its
\* members, and a manual trigger without a source, when it dispatches,
\* dispatches from a member.
C17_ActiveElementIsMember ==
    \A g \in DOMAIN scrollGroups :
        /\ scrollGroups[g].activeElement \in Members(g) \cup {NoEl}
        /\ \A k \in DOMAIN TriggerScrollSync(State, g, NoEl).emitted :
              TriggerScrollSync(State, g, NoEl).emitted[k].sourceElement \in Members(g)

\* ---------------------------------------------------------------- C18

\* Result t of one call of syncScroll from src in g dispatched one event,
\* with g, src and src's offsets as they are (not scaled), and a listener of
\* the event found every surface at the offsets the call leaves it with,
\* the other members of g at src's offsets times the ratio.
EmittedOnceAfterWrites(t, g, src) ==
    /\ t.emitted = <<[groupId |-> g, sourceElement |-> src,
                      scrollTop |-> scrollTop[src], scrollLeft |-> scrollLeft[src]]>>
    /\ t.observed = <<[top |-> t.top, left |-> t.left]>>
    /\ \A e \in Members(g) \ {src} :
          /\ t.observed[1].top[e] = scrollTop[src] * scrollGroups[g].options.scrollRatio
          /\ t.observed[1].left[e] = scrollLeft[src] * scrollGroups[g].options.scrollRatio

\* C18: a call of syncScroll for a group that is in the registry and not
\* paused dispatches exactly one 'scrollsync' event, after all the other
\* members have been written, carrying the group identifier, the source and
\* the source's unscaled offsets; a manual trigger does the same; a call for
\* an unknown or paused group dispatches none.
C18_EventAfterWrites ==
    /\ \A g \in Gids, src \in Els :
          LET t == SyncScroll(State, src, g)
          IN IF g \in DOMAIN scrollGroups /\ ~scrollGroups[g].isPaused
                THEN EmittedOnceAfterWrites(t, g, src)
                ELSE t.emitted = <<>> /\ t.observed = <<>>
    /\ \A g \in DOMAIN scrollGroups :
          \A src \in Members(g) :
              LET t == TriggerScrollSync(State, g, src)
              IN IF scrollGroups[g].isPaused
                    THEN t.emitted = <<>>
                    ELSE EmittedOnceAfterWrites(t, g, src)

\* A dispatch from a at offset 1 in a group of ratio 2 has happened: the
\* event carries 1 and the others are at 2.
C18_Witness ==
    /\ "g" \in DOMAIN scrollGroups
    /\ scrollGroups["g"].options.scrollRatio = 2
    /\ Members("g") = {"a", "b", "c"}
    /\ scrollGroups["g"].activeElement = "a"
    /\ emitted = <<[groupId |-> "g", sourceElement |-> "a",
                    scrollTop |-> 1, scrollLeft |-> 0]>>
    /\ scrollTop = [a |-> 1, b |-> 2, c |-> 2]

\* ---------------------------------------------------------------- C19

\* C19: the listener of a member el, joined with the options its marker
\* records, has one wrapper.  Joined with a debounce delay (with or without
\* a throttle delay) it is the debounced listener of that delay: a call
\* dispatches nothing, whatever the time since the last, and sets the one
\* timer.  Joined with a throttle delay only it dispatches when the window
\* has passed and drops the call otherwise.  Joined with neither it
\* dispatches on every call.
C19_OneWrapper ==
    \A g \in DOMAIN scrollGroups :
        \A el \in Members(g) :
            LET o == dataset[el].options
                i == scrollGroups[g].listeners[el]
                h == handlers[i]
            IN \A tp \in 0..1 :
                 LET m == Moved(State, el, tp, 0)
                     t == CallListener(m, i, ScrollEvent(el, tp, 0))
                 IN /\ o.debounceMs > 0 =>
                         /\ h = [NewHandler(el, g, [o EXCEPT !.throttleMs = 0])
                                    EXCEPT !.pending = h.pending, !.due = h.due,
                                           !.args = h.args]
                         /\ t = Debounced(m, i, ScrollEvent(el, tp, 0))
                         /\ t.emitted = <<>>
                         /\ t.handlers[i].due = now + o.debounceMs
                         /\ t.handlers[i].lastCall = 0
                    /\ (o.debounceMs = 0 /\ o.throttleMs > 0) =>
                         /\ h.kind = "throttle" /\ h.delay = o.throttleMs
                         /\ ~h.pending
                         /\ IF now - h.lastCall >= o.throttleMs
                              THEN Len(t.emitted) = 1
                              ELSE t = m
                    /\ (o.debounceMs = 0 /\ o.throttleMs = 0) =>
                         /\ h.kind = "raw"
                         /\ Len(t.emitted) = 1
                         /\ t.handlers = handlers

\* The timer of a's listener, joined with both delays, has fired two ticks
\* after a scroll on a that dispatched nothing, and b has a's offset.
C19_Witness ==
    /\ "g" \in DOMAIN scrollGroups
    /\ Members("g") = {"a", "b"}
    /\ dataset["a"].options.debounceMs = 2
    /\ dataset["a"].options.throttleMs = 1
    /\ \A i \in Attached("a", "g") : ~handlers[i].pending
    /\ emitted = <<[groupId |-> "g", sourceElement |-> "a",
                    scrollTop |-> 1, scrollLeft |-> 0]>>
    /\ scrollTop["a"] = 1 /\ scrollTop["b"] = 1
    /\ now >= StartTime + 2

\* ---------------------------------------------------------------- C20

\* Operation result t left group h as it is: its members, recorded
\* listeners, configuration, paused flag and active element, and the
\* closures recorded for its members, which are still registered.
GroupUntouched(t, h) ==
    /\ h \in DOMAIN t.scrollGroups
    /\ t.scrollGroups[h] = scrollGroups[h]
    /\ \A el \in Members(h) :
          LET i == scrollGroups[h].listeners[el]
          IN t.handlers[i] = handlers[i] /\ t.handlers[i].attached

\* C20: a dispatch, a manual trigger, pause, resume, a configuration update,
\* leave and destroy for identifier g leave every other group of the
\* registry as it is; in particular a surface in two groups stays a member
\* of the second, with its listener, when it leaves the first or the first
\* is destroyed.
C20_GroupsIndependent ==
    \A g \in MultiGids :
        \A h \in DOMAIN scrollGroups \ {g} :
            /\ \A src \in Els : GroupUntouched(SyncScroll(State, src, g), h)
            /\ \A src \in Els \cup {NoEl} :
                    GroupUntouched(TriggerScrollSync(State, g, src), h)
            /\ GroupUntouched(PauseScrollGroup(State, g), h)
            /\ GroupUntouched(ResumeScrollGroup(State, g), h)
            /\ \A over \in MultiOverrides :
                    GroupUntouched(UpdateScrollGroupOptions(State, g, over), h)
            /\ \A el \in Els : GroupUntouched(RemoveFromScrollGroup(State, el, g), h)
            /\ GroupUntouched(DestroyScrollGroup(State, g), h)

\* Group g has been destroyed or left by a, which took a's marker, while a
\* is a member of h with its listener registered, and h is paused.
C20_Witness ==
    /\ DOMAIN scrollGroups = {"h"}
    /\ Members("h") = {"a", "b"}
    /\ scrollGroups["h"].isPaused
    /\ dataset["a"] = NoData
    /\ dataset["b"].group = "h"
    /\ handlers[scrollGroups["h"].listeners["a"]].attached

=============================================================================
